---- MODULE Spec2Model ----
(***************************************************************************)
(* The dialog lifecycle of src/src/components/Modal/Modal.tsx.             *)
(*                                                                         *)
(* The file holds two variants of the Modal component:                     *)
(*   "animated"  lines 235-312: static children, optional animateClass,    *)
(*               closing is done by the cleanup of the open effect;        *)
(*   "fnchild"   lines 490-542: children is a function that receives       *)
(*               handleClose, the open effect has no cleanup.              *)
(*                                                                         *)
(* The native <dialog> surface is modelled by what the HTML standard says  *)
(* showModal() and close() do: showModal() on an open modal dialog and     *)
(* close() on a dialog that is not open return without any effect; a       *)
(* close() that closes the dialog sets returnValue and queues one close    *)
(* event, which is delivered by a later task.  React is modelled by what   *)
(* it does with useEffect/useCallback/useRef: an effect whose dependencies *)
(* changed runs the cleanup returned by the previous run (with that        *)
(* render's closures) and then the new effect; at unmount the ref is       *)
(* detached before the passive effect cleanup runs.                        *)
(***************************************************************************)
EXTENDS Naturals, Sequences, FiniteSets

\* ---------------------------------------------------------------- bounds
MaxListeners == 2   \* animationend listeners on one surface
MaxPending   == 1   \* close events queued and not yet delivered
MaxOpens     == 2   \* native showModal() invocations counted per true run

\* ---------------------------------------------------------------- values
Undefined == "<undefined>"       \* an absent optional prop
NullRef   == "null"              \* dialogRef.current === null
DialogRef == "dialog"            \* dialogRef.current is the surface

Variants       == {"animated", "fnchild"}
ReturnValues   == {Undefined, "ok", "no"}
AnimateClasses == {Undefined, "close"}

\* `${x}`: the template literal of lines 259, 270, 519
Str(x) == IF x = Undefined THEN "undefined" ELSE x

\* !animateClass, line 263
Falsy(x) == x = Undefined

Props(v) ==
    [showModal    : BOOLEAN,
     returnValue  : ReturnValues,
     animateClass : IF v = "animated" THEN AnimateClasses ELSE {Undefined},
     hasOnClose   : IF v = "animated" THEN BOOLEAN ELSE {TRUE},
     hasOnCancel  : BOOLEAN]

\* The props a re-render may bring: the caller keeps supplying, or keeps
\* omitting, the optional handlers; every other prop may change.
Rerender(v, old) ==
    {p \in Props(v) : /\ p.hasOnClose = old.hasOnClose
                      /\ p.hasOnCancel = old.hasOnCancel
                      /\ p # old}

\* What handleClose / closeModal / closeAndCleanup of one render close over.
Closure(p) == [animateClass |-> p.animateClass, returnValue |-> p.returnValue]
NoCleanup  == [animateClass |-> "<none>", returnValue |-> "<none>"]

\* A freshly created <dialog> element.
NewDialog ==
    [open |-> FALSE, returnValue |-> "", classList |-> {}, listeners |-> <<>>]

VARIABLES
    variant,      \* which of the two components of the file is mounted
    mounted,      \* the component is mounted
    props,        \* the props of the latest committed render
    dialogRef,    \* dialogRef.current: NullRef or DialogRef
    dialog,       \* the native surface: open, returnValue, classList, listeners
    cleanup,      \* closure of the cleanup the last effect run returned, or NoCleanup
    pendingClose, \* close events queued by the platform, not yet delivered
    op,           \* the operation the last step performed
    calls,        \* native showModal()/close() invocations of the last step, in order
    callbacks,    \* caller callbacks invoked in the last step, in order
    opensInRun,   \* native showModal() invocations since showModal last became true
    edge          \* what the last step did to showModal: "rise", "fall" or "none"

vars == <<variant, mounted, props, dialogRef, dialog, cleanup, pendingClose,
          op, calls, callbacks, opensInRun, edge>>

\* ------------------------------------------------------ the native surface
\* A handler works on w = [d, calls, pending]: the surface, the native calls
\* it has made so far in this step, and the queued close events.
World(d, n) == [d |-> d, calls |-> <<>>, pending |-> n]

\* HTMLDialogElement.showModal(): no effect on a dialog that is open.
NativeShowModal(w) ==
    [w EXCEPT !.calls = Append(@, "showModal"),
              !.d = IF w.d.open THEN @ ELSE [@ EXCEPT !.open = TRUE]]

\* HTMLDialogElement.close(rv): no effect on a dialog that is not open;
\* otherwise closes, sets returnValue and queues one close event.
NativeClose(w, rv) ==
    [w EXCEPT !.calls = Append(@, "close"),
              !.d = IF w.d.open
                    THEN [@ EXCEPT !.open = FALSE, !.returnValue = rv]
                    ELSE @,
              !.pending = IF w.d.open THEN @ + 1 ELSE @]

\* The platform's own close after an ESC gesture: returnValue is kept.
PlatformClose(w) ==
    [w EXCEPT !.d = [@ EXCEPT !.open = FALSE],
              !.pending = @ + 1]

RemoveFirst(s, x) ==
    LET idx == {i \in 1..Len(s) : s[i] = x}
    IN  IF idx = {} THEN s
        ELSE LET k == CHOOSE i \in idx : \A j \in idx : i <= j
             IN  SubSeq(s, 1, k - 1) \o SubSeq(s, k + 1, Len(s))

\* ------------------------------------------------- animated variant, 235-312
\* closeModal without the optional chaining on dialogRef.current.
CloseModal_NoNullTest(w, ref, c) == NativeClose(w, Str(c.returnValue))

\* closeModal, lines 258-260
CloseModal(w, ref, c) ==
    IF ref = NullRef THEN w ELSE NativeClose(w, Str(c.returnValue))

\* handleClose with the test of line 263 inverted.
HandleClose_Inverted(w, ref, c) ==
    IF ref = NullRef THEN w
    ELSE IF ~Falsy(c.animateClass) THEN NativeClose(w, Str(c.returnValue))
    ELSE [w EXCEPT !.d = [@ EXCEPT
                            !.listeners = Append(@, c),
                            !.classList = @ \cup {Str(c.animateClass)}]]

\* handleClose with the native close not deferred: the animation branch
\* closes at once as well as registering the listener.
HandleClose_Eager(w, ref, c) ==
    IF ref = NullRef THEN w
    ELSE IF Falsy(c.animateClass) THEN NativeClose(w, Str(c.returnValue))
    ELSE LET w1 == NativeClose(w, Str(c.returnValue))
         IN  [w1 EXCEPT !.d = [@ EXCEPT
                                 !.listeners = Append(@, c),
                                 !.classList = @ \cup {Str(c.animateClass)}]]

\* handleClose with line 274 left out: the class is attached, no listener.
HandleClose_NoListener(w, ref, c) ==
    IF ref = NullRef THEN w
    ELSE IF Falsy(c.animateClass) THEN NativeClose(w, Str(c.returnValue))
    ELSE [w EXCEPT !.d = [@ EXCEPT !.classList = @ \cup {Str(c.animateClass)}]]

\* handleClose, lines 262-277.  The listener it registers is the closure
\* closeAndCleanup of this call: a new function object on every call.
HandleClose(w, ref, c) ==
    IF Falsy(c.animateClass) THEN CloseModal(w, ref, c)
    ELSE IF ref = NullRef THEN w
    ELSE [w EXCEPT !.d = [@ EXCEPT
                            !.listeners = Append(@, c),
                            !.classList = @ \cup {Str(c.animateClass)}]]

\* closeAndCleanup with line 271 left out: the listener stays registered.
CloseAndCleanup_KeepListener(w, ref, c) ==
    LET w1 == CloseModal(w, ref, c)
    IN  IF ref = NullRef THEN w1
        ELSE [w1 EXCEPT !.d = [@ EXCEPT !.classList = @ \ {Str(c.animateClass)}]]

\* closeAndCleanup, lines 268-272
CloseAndCleanup(w, ref, c) ==
    LET w1 == CloseModal(w, ref, c)
    IN  IF ref = NullRef THEN w1
        ELSE [w1 EXCEPT !.d = [@ EXCEPT
                                 !.classList = @ \ {Str(c.animateClass)},
                                 !.listeners = RemoveFirst(@, c)]]

\* One animationend event: the platform invokes every listener registered
\* at dispatch time, in registration order.
RECURSIVE Dispatch(_, _, _)
Dispatch(w, ref, ls) ==
    IF ls = <<>> THEN w
    ELSE Dispatch(CloseAndCleanup(w, ref, Head(ls)), ref, Tail(ls))

\* The effect with the negation of line 282 left out.
OpenEffect_NoNegation(w, ref, p) ==
    IF ~p.showModal THEN w
    ELSE IF ref # NullRef /\ w.d.open THEN NativeShowModal(w)
    ELSE w

\* The body of the effect, lines 280-284
OpenEffect(w, ref, p) ==
    IF ~p.showModal THEN w
    ELSE IF ref # NullRef /\ ~w.d.open THEN NativeShowModal(w)
    ELSE w

\* The cleanup the effect returns, lines 280 and 286-288
EffectCleanup(p) == IF p.showModal THEN Closure(p) ELSE NoCleanup

\* The dependency array [showModal, handleClose], line 289; handleClose's
\* identity follows [animateClass, closeModal], closeModal's [returnValue].
DepsChanged(old, new) ==
    \/ new.showModal # old.showModal
    \/ new.animateClass # old.animateClass
    \/ new.returnValue # old.returnValue

\* ---------------------------------------------- function-child variant, 490-542
\* The effect closing the surface itself when showModal is false.
OpenEffectFn_ClosesOnFalse(w, ref, p) ==
    IF ref = NullRef THEN w
    ELSE IF p.showModal
         THEN (IF w.d.open THEN w ELSE NativeShowModal(w))
         ELSE (IF w.d.open THEN NativeClose(w, Str(p.returnValue)) ELSE w)

\* The effect without the open test of line 512.
OpenEffectFn_NoOpenTest(w, ref, p) ==
    IF ref # NullRef /\ p.showModal THEN NativeShowModal(w) ELSE w

\* The effect, lines 511-515
OpenEffectFn(w, ref, p) ==
    IF ref # NullRef /\ ~w.d.open /\ p.showModal THEN NativeShowModal(w) ELSE w

\* handleClose, lines 517-521
HandleCloseFn(w, ref, c) ==
    IF ref # NullRef /\ w.d.open THEN NativeClose(w, Str(c.returnValue)) ELSE w

\* The dependency array [showModal], line 515
DepsChangedFn(old, new) == new.showModal # old.showModal

\* ------------------------------------------------------- the cancel event
\* A cancel handling that closes the surface itself.
CancelEffect_Closes(w, ref, c) ==
    IF ref # NullRef /\ w.d.open THEN NativeClose(w, Str(c.returnValue)) ELSE w

\* What the component itself does to the surface on a native cancel event:
\* nothing, lines 295 and 526 only hand the event to the caller's handler.
CancelEffect(w, ref, c) == w

\* ------------------------------------------------------------- bookkeeping
Edge(old, new) ==
    IF ~old.showModal /\ new.showModal THEN "rise"
    ELSE IF old.showModal /\ ~new.showModal THEN "fall"
    ELSE "none"

CountOf(s, x) == Cardinality({i \in 1..Len(s) : s[i] = x})

Callback(name, d) == [name |-> name, returnValue |-> d.returnValue]

\* The cancel wiring with the close handler attached to it as well.
OnCancelHandler_AlsoOnClose(p, d) ==
    (IF p.hasOnCancel THEN <<Callback("onCancel", d)>> ELSE <<>>)
    \o (IF p.hasOnClose THEN <<Callback("onClose", d)>> ELSE <<>>)

\* The two handlers attached to each other's event.
OnCancelHandler_Swapped(p, d) ==
    IF p.hasOnClose THEN <<Callback("onClose", d)>> ELSE <<>>

\* onCancel={onCancel && onCancel}, lines 295 and 526: what a native cancel
\* event on surface d invokes.
OnCancelHandler(p, d) ==
    IF p.hasOnCancel THEN <<Callback("onCancel", d)>> ELSE <<>>

\* The close wiring with the cancel handler attached to it as well.
OnCloseHandler_AlsoOnCancel(p, d) ==
    (IF p.hasOnCancel THEN <<Callback("onCancel", d)>> ELSE <<>>)
    \o (IF p.hasOnClose THEN <<Callback("onClose", d)>> ELSE <<>>)

\* onClose={onClose && onClose}, line 296, and onClose={onClose}, line 527:
\* what a native close event on surface d invokes.
OnCloseHandler(p, d) ==
    IF p.hasOnClose THEN <<Callback("onClose", d)>> ELSE <<>>

\* The state after the first commit of a component mounted with props p.
Mounted(v, p) ==
    LET w0 == World(NewDialog, 0)
        w1 == IF v = "animated" THEN OpenEffect(w0, DialogRef, p)
                                ELSE OpenEffectFn(w0, DialogRef, p)
    IN  /\ variant' = v
        /\ mounted' = TRUE
        /\ props' = p
        /\ dialogRef' = DialogRef
        /\ dialog' = w1.d
        /\ cleanup' = IF v = "animated" THEN EffectCleanup(p) ELSE NoCleanup
        /\ pendingClose' = 0
        /\ op' = "Mount"
        /\ calls' = w1.calls
        /\ callbacks' = <<>>
        /\ opensInRun' = CountOf(w1.calls, "showModal")
        /\ edge' = "none"

Fits(w) ==
    /\ Len(w.d.listeners) <= MaxListeners
    /\ w.pending <= MaxPending

Init ==
    \E v \in Variants : \E p \in Props(v) :
        LET w1 == IF v = "animated" THEN OpenEffect(World(NewDialog, 0), DialogRef, p)
                                    ELSE OpenEffectFn(World(NewDialog, 0), DialogRef, p)
        IN  /\ variant = v
            /\ mounted = TRUE
            /\ props = p
            /\ dialogRef = DialogRef
            /\ dialog = w1.d
            /\ cleanup = IF v = "animated" THEN EffectCleanup(p) ELSE NoCleanup
            /\ pendingClose = 0
            /\ op = "Mount"
            /\ calls = w1.calls
            /\ callbacks = <<>>
            /\ opensInRun = CountOf(w1.calls, "showModal")
            /\ edge = "none"

\* ----------------------------------------------------------------- actions
\* A re-render of the animated variant with props p is committed.
CommitAnimated(p) ==
    /\ mounted /\ variant = "animated"
    /\ LET ch == DepsChanged(props, p)
           w0 == World(dialog, pendingClose)
           w1 == IF ch /\ cleanup # NoCleanup
                 THEN HandleClose(w0, dialogRef, cleanup) ELSE w0
           w2 == IF ch THEN OpenEffect(w1, dialogRef, p) ELSE w1
           n  == IF p.showModal
                 THEN (IF props.showModal THEN opensInRun ELSE 0)
                      + CountOf(w2.calls, "showModal")
                 ELSE 0
       IN  /\ Fits(w2) /\ n <= MaxOpens
           /\ dialog' = w2.d
           /\ pendingClose' = w2.pending
           /\ calls' = w2.calls
           /\ cleanup' = IF ch THEN EffectCleanup(p) ELSE cleanup
           /\ opensInRun' = n
    /\ props' = p
    /\ edge' = Edge(props, p)
    /\ op' = "Commit"
    /\ callbacks' = <<>>
    /\ UNCHANGED <<variant, mounted, dialogRef>>

\* A re-render of the function-child variant with props p is committed.
CommitFn(p) ==
    /\ mounted /\ variant = "fnchild"
    /\ LET w0 == World(dialog, pendingClose)
           w1 == IF DepsChangedFn(props, p)
                 THEN OpenEffectFn(w0, dialogRef, p) ELSE w0
           n  == IF p.showModal
                 THEN (IF props.showModal THEN opensInRun ELSE 0)
                      + CountOf(w1.calls, "showModal")
                 ELSE 0
       IN  /\ Fits(w1) /\ n <= MaxOpens
           /\ dialog' = w1.d
           /\ pendingClose' = w1.pending
           /\ calls' = w1.calls
           /\ opensInRun' = n
    /\ props' = p
    /\ edge' = Edge(props, p)
    /\ op' = "Commit"
    /\ callbacks' = <<>>
    /\ UNCHANGED <<variant, mounted, dialogRef, cleanup>>

\* The rendered content calls the handleClose it was given (line 539).
ChildHandleClose ==
    /\ mounted /\ variant = "fnchild"
    /\ LET w == HandleCloseFn(World(dialog, pendingClose), dialogRef, Closure(props))
       IN  /\ Fits(w)
           /\ dialog' = w.d
           /\ pendingClose' = w.pending
           /\ calls' = w.calls
    /\ op' = "HandleClose"
    /\ edge' = "none"
    /\ callbacks' = <<>>
    /\ UNCHANGED <<variant, mounted, props, dialogRef, cleanup, opensInRun>>

\* The user presses ESC on the open surface: the platform fires cancel
\* (lines 295, 526) and, unless the handler prevented it, closes the surface.
Esc(prevented) ==
    /\ mounted /\ dialog.open
    /\ prevented => props.hasOnCancel
    /\ LET w0 == CancelEffect(World(dialog, pendingClose), dialogRef, Closure(props))
           w  == IF prevented THEN w0 ELSE PlatformClose(w0)
       IN  /\ Fits(w)
           /\ dialog' = w.d
           /\ pendingClose' = w.pending
           /\ calls' = w.calls
    /\ callbacks' = OnCancelHandler(props, dialog)
    /\ op' = "Esc"
    /\ edge' = "none"
    /\ UNCHANGED <<variant, mounted, props, dialogRef, cleanup, opensInRun>>

\* A queued close event is delivered (lines 296, 527).
CloseEvent ==
    /\ mounted /\ pendingClose > 0
    /\ pendingClose' = pendingClose - 1
    /\ callbacks' = OnCloseHandler(props, dialog)
    /\ op' = "CloseEvent"
    /\ edge' = "none"
    /\ calls' = <<>>
    /\ UNCHANGED <<variant, mounted, props, dialogRef, dialog, cleanup, opensInRun>>

\* The animation started by the class on the open surface ends.
AnimationEnd ==
    /\ mounted /\ dialog.open /\ dialog.classList # {}
    /\ LET w == Dispatch(World(dialog, pendingClose), dialogRef, dialog.listeners)
       IN  /\ Fits(w)
           /\ dialog' = w.d
           /\ pendingClose' = w.pending
           /\ calls' = w.calls
    /\ op' = "AnimationEnd"
    /\ edge' = "none"
    /\ callbacks' = <<>>
    /\ UNCHANGED <<variant, mounted, props, dialogRef, cleanup, opensInRun>>

\* The component unmounts: the ref is detached, then the effect cleanup runs.
Unmount ==
    /\ mounted
    /\ LET w0 == World(dialog, pendingClose)
           w  == IF cleanup # NoCleanup THEN HandleClose(w0, NullRef, cleanup) ELSE w0
       IN  /\ dialog' = w.d
           /\ calls' = w.calls
    /\ mounted' = FALSE
    /\ dialogRef' = NullRef
    /\ cleanup' = NoCleanup
    /\ pendingClose' = 0
    /\ opensInRun' = 0
    /\ op' = "Unmount"
    /\ edge' = "none"
    /\ callbacks' = <<>>
    /\ UNCHANGED <<variant, props>>

\* The component is mounted again, on a new surface.
Remount(p) ==
    /\ ~mounted
    /\ Mounted(variant, p)

Next ==
    \/ \E p \in Rerender("animated", props) : CommitAnimated(p)
    \/ \E p \in Rerender("fnchild", props) : CommitFn(p)
    \/ ChildHandleClose
    \/ \E prevented \in BOOLEAN : Esc(prevented)
    \/ CloseEvent
    \/ AnimationEnd
    \/ Unmount
    \/ \E p \in Rerender(variant, props) \cup {props} : Remount(p)

Spec == Init /\ [][Next]_vars

\* The animated variant alone, with both optional handlers supplied and
\* returnValue either absent or "ok".  The
\* platform delivers animationend when an animation runs on the open
\* surface, and delivers the close events it queued.
FairReturnValues == {Undefined, "ok"}

InitAnimated ==
    /\ Init
    /\ variant = "animated"
    /\ props.hasOnClose /\ props.hasOnCancel
    /\ props.returnValue \in FairReturnValues

NextAnimated ==
    \/ \E p \in Rerender("animated", props) :
          p.returnValue \in FairReturnValues /\ CommitAnimated(p)
    \/ \E prevented \in BOOLEAN : Esc(prevented)
    \/ CloseEvent
    \/ AnimationEnd
    \/ Unmount
    \/ \E p \in Rerender(variant, props) \cup {props} :
          p.returnValue \in FairReturnValues /\ Remount(p)

FairSpec ==
    /\ InitAnimated
    /\ [][NextAnimated]_vars
    /\ WF_vars(AnimationEnd)
    /\ WF_vars(CloseEvent)

TypeOK ==
    /\ variant \in Variants
    /\ mounted \in BOOLEAN
    /\ props \in Props(variant)
    /\ dialogRef \in {NullRef, DialogRef}
    /\ dialog.open \in BOOLEAN
    /\ Len(dialog.listeners) <= MaxListeners
    /\ pendingClose \in 0..MaxPending
    /\ opensInRun \in 0..MaxOpens
    /\ edge \in {"rise", "fall", "none"}

\* ------------------------------------------------------------------ claims
Animated == variant = "animated"
NShow(cs)  == CountOf(cs, "showModal")
NClose(cs) == CountOf(cs, "close")

\* C1: in both variants, a commit in which showModal changes from false to
\* true while the surface is mounted and not open makes the effect invoke
\* native showModal() once, and the surface is open after the step.
C1_OpenOnRise ==
    [][(mounted /\ ~dialog.open /\ ~props.showModal
        /\ op' = "Commit" /\ props'.showModal)
       => (NShow(calls') = 1 /\ dialog'.open)]_vars

C1_Witness ==
    /\ mounted /\ op = "Commit" /\ edge = "rise"
    /\ calls = <<"showModal">> /\ dialog.open

\* C2: within a maximal run of consecutive renders in which showModal is
\* true, native showModal() is invoked at most once.
C2_OpenOncePerRun == opensInRun <= 1

\* C3: in the animated variant no component action closes the surface in a
\* step after which showModal is true in the latest committed render.
C3_NoCloseWhileShown ==
    [][(Animated /\ mounted' /\ props'.showModal)
       => ~(NClose(calls') > 0 /\ dialog.open /\ ~dialog'.open)]_vars

\* C4: in the animated variant, once showModal is false while the surface
\* is open, the surface is eventually closed (or showModal becomes true
\* again, or the component unmounts), animationend being delivered.
C4_EventuallyClosed ==
    (Animated /\ mounted /\ ~props.showModal /\ dialog.open)
        ~> (~dialog.open \/ props.showModal \/ ~mounted)

C4_Witness ==
    /\ Animated /\ mounted /\ ~props.showModal
    /\ op = "AnimationEnd" /\ calls = <<"close">> /\ ~dialog.open

\* The close requests that take no animation branch.
C5_Request ==
    \/ /\ Animated /\ mounted /\ op' = "Commit"
       /\ props.showModal /\ ~props'.showModal
       /\ Falsy(props.animateClass) /\ Falsy(props'.animateClass)
    \/ /\ ~Animated /\ mounted /\ op' = "HandleClose"

\* C5: a close request on an open surface with no animation class (the
\* showModal true->false cleanup of the animated variant with animateClass
\* unset, or a child-invoked handleClose of the function-child variant)
\* invokes native close() exactly once, queues exactly one close event, and
\* leaves the surface's returnValue equal to the configured returnValue.
C5_CloseOnceWithValue ==
    [][(C5_Request /\ dialog.open)
       => /\ NClose(calls') = 1
          /\ pendingClose' = pendingClose + 1
          /\ dialog'.returnValue = Str(props'.returnValue)]_vars

\* C6: in the animated variant with animateClass set, native close() is
\* invoked, in a step that starts or ends with a listener pending, only by
\* the animationend dispatch; and while a listener is pending the class of
\* its request is on the surface's class list.
C6_DeferredClose ==
    [][(Animated /\ mounted /\ ~Falsy(props.animateClass))
       => /\ ((dialog.listeners # <<>> \/ dialog'.listeners # <<>>)
               /\ NClose(calls') > 0) => op' = "AnimationEnd"
          /\ \A i \in 1..Len(dialog'.listeners) :
                Str(dialog'.listeners[i].animateClass) \in dialog'.classList]_vars

C6_Witness ==
    /\ Animated /\ mounted /\ op = "Commit" /\ edge = "fall"
    /\ dialog.open /\ calls = <<>>
    /\ Len(dialog.listeners) = 1 /\ "close" \in dialog.classList

\* C7: in the animated variant, whenever the surface is not open the class
\* list holds no animation class.
C7_NoClassWhenClosed == (Animated /\ ~dialog.open) => dialog.classList = {}

\* C8: two close requests in succession result in exactly one native
\* close() call: the animationend dispatch that serves the requests of the
\* animated variant calls close() once, and a handleClose of the
\* function-child variant that calls close() closes the surface.
C8_OneClosePerCycle ==
    /\ (Animated /\ op = "AnimationEnd") => NClose(calls) <= 1
    /\ (~Animated /\ op = "HandleClose") =>
          /\ NClose(calls) <= 1
          /\ NClose(calls) = 1 => (~dialog.open /\ pendingClose >= 1)

\* C9: at most one animationend listener registered by handleClose exists
\* on the surface.
C9_OneListener == Len(dialog.listeners) <= 1

\* C10: once the component is unmounted no animationend listener is left
\* registered on the surface.
C10_NoListenerAfterUnmount == ~mounted => dialog.listeners = <<>>

\* The callbacks of one step that are invocations of the named handler.
NCallback(cbs, name) == Cardinality({i \in 1..Len(cbs) : cbs[i].name = name})

\* The open->closed transitions of one step that starts with the surface
\* open or not (isOpen) and makes the native calls cs in order.
RECURSIVE ClosedBy(_, _)
ClosedBy(isOpen, cs) ==
    IF cs = <<>> THEN 0
    ELSE IF Head(cs) = "close"
         THEN (IF isOpen THEN 1 ELSE 0) + ClosedBy(FALSE, Tail(cs))
         ELSE ClosedBy(TRUE, Tail(cs))

\* C11: in both variants, in every step other than a mount or an unmount,
\* onClose is invoked only by the delivery of a native close event, each
\* open->closed transition of the surface queues exactly one such event,
\* and each delivery invokes onClose (when supplied) exactly once.
C11_OnCloseOncePerClose ==
    [][(op' \notin {"Mount", "Unmount"})
       => /\ NCallback(callbacks', "onClose") > 0 => op' = "CloseEvent"
          /\ LET closed    == IF calls' = <<>>
                              THEN (IF dialog.open /\ ~dialog'.open THEN 1 ELSE 0)
                              ELSE ClosedBy(dialog.open, calls')
                 delivered == IF op' = "CloseEvent" THEN 1 ELSE 0
             IN  pendingClose' + delivered = pendingClose + closed
          /\ (op' = "CloseEvent" /\ props.hasOnClose)
                => NCallback(callbacks', "onClose") = 1]_vars

C11_Witness ==
    /\ mounted /\ op = "CloseEvent" /\ ~dialog.open /\ pendingClose = 0
    /\ callbacks = <<Callback("onClose", dialog)>>

\* C12: in both variants, an ESC gesture on an open surface invokes
\* onCancel (when supplied) first, and the close event of the gesture, whose
\* delivery invokes onClose, is still queued when onCancel has run.
C12_CancelBeforeClose ==
    [][(op' = "Esc" /\ props.hasOnCancel)
       => /\ callbacks' # <<>>
          /\ callbacks'[1].name = "onCancel"
          /\ NCallback(callbacks', "onClose") = 0
          /\ ~dialog'.open => pendingClose' = pendingClose + 1]_vars

C12_Witness ==
    /\ mounted /\ op = "Esc" /\ props.hasOnCancel /\ props.hasOnClose
    /\ callbacks = <<Callback("onCancel", dialog)>>
    /\ ~dialog.open /\ pendingClose = 1

\* C13: in both variants, onCancel is invoked only in the step in which the
\* native cancel event fires: not by a handleClose call, a commit, an
\* unmount, an animationend dispatch or the delivery of a close event.
C13_OnCancelOnlyOnCancel ==
    NCallback(callbacks, "onCancel") > 0 => op = "Esc"

C13_Witness ==
    /\ ~Animated /\ mounted /\ props.hasOnCancel
    /\ op = "HandleClose" /\ calls = <<"close">> /\ ~dialog.open
    /\ callbacks = <<>>

\* Every closure that can pass a returnValue to close() was created by a
\* render in which the returnValue prop was absent.
ReturnValueAbsent ==
    /\ props.returnValue = Undefined
    /\ cleanup # NoCleanup => cleanup.returnValue = Undefined
    /\ \A i \in 1..Len(dialog.listeners) :
          dialog.listeners[i].returnValue = Undefined

\* C14: in both variants, when the returnValue prop is absent, the string
\* the component passes to native close(), which a close() that closes the
\* surface leaves as the surface's returnValue, is the empty string.
C14_AbsentIsEmpty ==
    [][(ReturnValueAbsent /\ props'.returnValue = Undefined
        /\ dialog.open /\ ~dialog'.open /\ NClose(calls') > 0)
       => dialog'.returnValue = ""]_vars

\* The showModal() invocations, among the native calls cs made in order
\* from a surface that is open or not (isOpen), made while it is open.
RECURSIVE ShowOnOpen(_, _)
ShowOnOpen(isOpen, cs) ==
    IF cs = <<>> THEN 0
    ELSE IF Head(cs) = "showModal"
         THEN (IF isOpen THEN 1 ELSE 0) + ShowOnOpen(TRUE, Tail(cs))
         ELSE ShowOnOpen(FALSE, Tail(cs))

\* C15: in both variants, native showModal() is never invoked while the
\* surface is open, neither by the first effect run on the new surface nor
\* by any later step.
C15_NoShowOnOpen ==
    /\ ShowOnOpen(FALSE, calls) = 0
    /\ [][ShowOnOpen(IF op' = "Mount" THEN FALSE ELSE dialog.open, calls') = 0]_vars

\* The effect ran again with showModal true on an open surface (animated:
\* after its cleanup left a listener; function-child: showModal rose while
\* the surface was still open) and made no native call.
C15_Witness ==
    /\ mounted /\ op = "Commit" /\ props.showModal /\ dialog.open /\ calls = <<>>
    /\ \/ Animated /\ edge = "none" /\ dialog.listeners # <<>>
       \/ ~Animated /\ edge = "rise"

\* A step in which the component makes a close request: the effect cleanup
\* of the animated variant runs, or the function-child handleClose is called.
CloseRequestStep ==
    \/ /\ Animated /\ mounted /\ op' = "Commit"
       /\ cleanup # NoCleanup /\ DepsChanged(props, props')
    \/ /\ ~Animated /\ mounted /\ op' = "HandleClose"

\* C16: in both variants, a close request made while the surface is not
\* open leaves the surface's returnValue, class list and listeners as they
\* were and queues no close event.
C16_CloseOnClosedIsNoOp ==
    [][(CloseRequestStep /\ ~dialog.open)
       => /\ dialog'.returnValue = dialog.returnValue
          /\ dialog'.classList = dialog.classList
          /\ dialog'.listeners = dialog.listeners
          /\ pendingClose' = pendingClose]_vars

\* C17: in both variants, a native close() that closes the surface is
\* passed the stringified returnValue prop of the latest committed render,
\* which the close leaves as the surface's returnValue.
C17_LatestReturnValue ==
    [][(mounted /\ dialog.open /\ calls' # <<>> /\ Head(calls') = "close")
       => dialog'.returnValue = Str(props'.returnValue)]_vars

\* C18: in the animated variant, when the animationend dispatch has run
\* closeAndCleanup for every pending request, each has called close(), the
\* surface is closed, the class of each request is off the class list and
\* no listener of the requests is left.
C18_CloseAndCleanup ==
    [][(op' = "AnimationEnd" /\ dialog.listeners # <<>>)
       => /\ NClose(calls') = Len(dialog.listeners)
          /\ ~dialog'.open
          /\ \A i \in 1..Len(dialog.listeners) :
                Str(dialog.listeners[i].animateClass) \notin dialog'.classList
          /\ dialog'.listeners = <<>>]_vars

C18_Witness ==
    /\ Animated /\ mounted /\ op = "AnimationEnd" /\ NClose(calls) >= 1
    /\ ~dialog.open /\ dialog.classList = {} /\ dialog.listeners = <<>>
    /\ pendingClose = 1

\* C19: in the function-child variant, a commit in which showModal falls
\* makes no native call and leaves the surface and the queued close events
\* as they were, and native close() is invoked only by handleClose.
C19_FallDoesNothing ==
    [][~Animated
       => /\ (op' = "Commit" /\ props.showModal /\ ~props'.showModal)
                => (calls' = <<>> /\ dialog' = dialog /\ pendingClose' = pendingClose)
          /\ NClose(calls') > 0 => op' = "HandleClose"]_vars

C19_Witness ==
    /\ ~Animated /\ mounted /\ op = "Commit" /\ edge = "fall"
    /\ ~props.showModal /\ dialog.open /\ calls = <<>>

\* C20: in both variants, a native cancel event makes the component invoke
\* onCancel when supplied and nothing else: no native call, the class list,
\* the listeners and the returnValue are unchanged; with onCancel absent
\* the platform closes the surface and queues one close event, as it does
\* with onCancel present unless the caller's handler prevents it.
C20_CancelOnlyForwards ==
    [][(op' = "Esc")
       => /\ calls' = <<>>
          /\ dialog'.classList = dialog.classList
          /\ dialog'.listeners = dialog.listeners
          /\ dialog'.returnValue = dialog.returnValue
          /\ callbacks' = IF props.hasOnCancel
                          THEN <<Callback("onCancel", dialog)>> ELSE <<>>
          /\ ~props.hasOnCancel => ~dialog'.open
          /\ ~dialog'.open => pendingClose' = pendingClose + 1
          /\ dialog'.open => pendingClose' = pendingClose]_vars

C20_Witness ==
    /\ mounted /\ op = "Esc" /\ ~props.hasOnCancel /\ props.hasOnClose
    /\ callbacks = <<>> /\ calls = <<>>
    /\ ~dialog.open /\ pendingClose = 1

\* C21: in the animated variant with animateClass unset, a commit or an
\* unmount leaves the class list and the listeners of the surface as they
\* were, a newly mounted surface has neither, and after a commit in which
\* showModal rises (or a mount with showModal true) the surface is open.
C21_UnsetNeverAnimates ==
    /\ (op = "Mount" /\ Animated /\ Falsy(props.animateClass))
          => /\ dialog.classList = {} /\ dialog.listeners = <<>>
             /\ props.showModal => dialog.open
    /\ [][(Animated /\ Falsy(props'.animateClass)
           /\ (op' = "Mount" \/ Falsy(props.animateClass)))
          => /\ op' = "Mount"
                => /\ dialog'.classList = {} /\ dialog'.listeners = <<>>
                   /\ props'.showModal => dialog'.open
             /\ op' \in {"Commit", "Unmount"}
                => /\ dialog'.classList = dialog.classList
                   /\ dialog'.listeners = dialog.listeners
             /\ (op' = "Commit" /\ ~props.showModal /\ props'.showModal)
                => dialog'.open]_vars

C21_Witness ==
    /\ Animated /\ mounted /\ Falsy(props.animateClass)
    /\ op = "Commit" /\ edge = "rise" /\ calls = <<"showModal">>
    /\ dialog.open /\ dialog.classList = {} /\ dialog.listeners = <<>>

\* Every closure and every render's props the variant can produce.
Closures(v) == {Closure(p) : p \in Props(v)}

\* C22: in both variants, with the surface reference null, the open effect,
\* handleClose, closeModal and closeAndCleanup leave the surface, the native
\* calls and the queued close events as they were, whatever the surface's
\* state and whatever render the closure belongs to; the cleanup run at
\* unmount, after the ref is detached, makes no native call.
C22_NullRefDoesNothing ==
    LET w == World(dialog, pendingClose) IN
    /\ \A c \in Closures("animated") :
          /\ HandleClose(w, NullRef, c) = w
          /\ CloseModal(w, NullRef, c) = w
          /\ CloseAndCleanup(w, NullRef, c) = w
    /\ \A p \in Props("animated") : OpenEffect(w, NullRef, p) = w
    /\ \A c \in Closures("fnchild") : HandleCloseFn(w, NullRef, c) = w
    /\ \A p \in Props("fnchild") : OpenEffectFn(w, NullRef, p) = w
    /\ op = "Unmount" => (calls = <<>> /\ dialogRef = NullRef)

C22_Witness ==
    /\ Animated /\ ~mounted /\ op = "Unmount" /\ dialogRef = NullRef
    /\ props.showModal /\ dialog.open /\ calls = <<>>

====
